---- MODULE Spec2Model ----
(***************************************************************************)
(* Model of worker.js: the chroma-key worker of line-sticker-factory.      *)
(*                                                                         *)
(* One request message is handled by self.onmessage: a matte step          *)
(* (removeBgFloodFill or removeBgFeathered), then applyErosion, then       *)
(* postMessage.  The buffer is a sequence of RGBA pixels (four bytes       *)
(* each); offsets are 0-based as in the source, so the pixel at offset o   *)
(* is data[o + 1].                                                         *)
(*                                                                         *)
(* Arithmetic.  The source computes in IEEE doubles.  Percentages are      *)
(* integers here and every comparison of the source is stated over the     *)
(* integers by clearing denominators (and squaring where the source takes  *)
(* a square root); each definition gives the derivation.  Products stay    *)
(* below 2^31 for tolerances in -100 .. 200.  The comparisons are those of *)
(* real arithmetic: where two inexact doubles would be exactly equal as    *)
(* reals, or Math.round is handed an exact half, the source may land one   *)
(* unit of alpha or one side of a threshold away from the value here.      *)
(***************************************************************************)
EXTENDS Integers, Sequences, FiniteSets, TLC

VARIABLES
    req,        \* e.data: the request as received (the buffer as it arrived)
    data,       \* rawImageData.data: the live buffer, mutated in place
    pc,         \* position of the handler
    stack,      \* removeBgFloodFill: pending coordinates
    visited,    \* removeBgFloodFill: visited mask, offsets 0 .. w*h-1
    order,      \* traversal order of the flood fill
    k,          \* applyErosion: iterations done
    outbox,     \* messages posted to the main thread
    log,        \* the steps the handler has run, in order
    pushed,     \* removeBgFloodFill: coordinates pushed so far, the seeds
                \* included (history; counted by the single steps of the loop)
    tested      \* removeBgFloodFill: per offset, how often the pixel passed
                \* line 113 and was tested (history, as pushed)

vars == <<req, data, pc, stack, visited, order, k, outbox, log, pushed, tested>>

----------------------------------------------------------------------------
(* Bounds of the model *)

MaxDim == 3
MaxPixels == 9
MaxStrength == 3

----------------------------------------------------------------------------
(* Small arithmetic *)

Abs(n) == IF n < 0 THEN -n ELSE n
Max2(a, b) == IF a >= b THEN a ELSE b
Min2(a, b) == IF a <= b THEN a ELSE b
Max3(a, b, c) == Max2(a, Max2(b, c))
Min3(a, b, c) == Min2(a, Min2(b, c))

RECURSIVE ISqrt(_)
\* floor(sqrt(n)) for n >= 0
ISqrt(n) ==
    IF n < 2 THEN n
    ELSE LET s == 2 * ISqrt(n \div 4)
         IN  IF (s + 1) * (s + 1) <= n THEN s + 1 ELSE s

\* one decimal digit more of a square root: tr = <<t, r>> with r = N - t*t
SqrtDigit(tr) ==
    LET t == tr[1]
        r == tr[2]
        d == CHOOSE e \in 0..9 :
                /\ (20 * t + e) * e <= 100 * r
                /\ \A f \in (e + 1)..9 : (20 * t + f) * f > 100 * r
    IN  <<10 * t + d, 100 * r - (20 * t + d) * d>>

\* floor(51000 * sqrt(d)) = floor(1000 * sqrt(2601 * d)), for 0 <= d <= 3 * 255^2
Sqrt51000(d) ==
    LET n  == 2601 * d
        t0 == ISqrt(n)
    IN  SqrtDigit(SqrtDigit(SqrtDigit(<<t0, n - t0 * t0>>)))[1]

\* a store into a Uint8ClampedArray of an integral value
ClampByte(v) == IF v < 0 THEN 0 ELSE IF v > 255 THEN 255 ELSE v

----------------------------------------------------------------------------
(* Strings are sequences of one-character strings *)

LowerChar(c) ==
    CASE c = "A" -> "a" [] c = "B" -> "b" [] c = "C" -> "c"
      [] c = "D" -> "d" [] c = "E" -> "e" [] c = "F" -> "f"
      [] c = "R" -> "r" [] c = "G" -> "g"
      [] OTHER -> c

toLowerCase(s) == [i \in 1..Len(s) |-> LowerChar(s[i])]

HexChars == <<"0", "1", "2", "3", "4", "5", "6", "7", "8", "9",
              "a", "b", "c", "d", "e", "f">>

IsHexChar(c) == \E i \in 1..16 : HexChars[i] = LowerChar(c)
HexVal(c) == (CHOOSE i \in 1..16 : HexChars[i] = LowerChar(c)) - 1
parseInt16(c1, c2) == 16 * HexVal(c1) + HexVal(c2)

\* /^#?([a-f\d]{2})([a-f\d]{2})([a-f\d]{2})$/i ; null is [null |-> TRUE]
hexToRgb(hex) ==
    LET body == IF Len(hex) >= 1 /\ hex[1] = "#" THEN Tail(hex) ELSE hex
    IN  IF Len(body) = 6 /\ \A i \in 1..6 : IsHexChar(body[i])
        THEN [null |-> FALSE,
              r |-> parseInt16(body[1], body[2]),
              g |-> parseInt16(body[3], body[4]),
              b |-> parseInt16(body[5], body[6])]
        ELSE [null |-> TRUE]

\* a slip: the fallback colour is white
TargetOfWhite(hex) ==
    LET t == hexToRgb(hex)
    IN  IF t.null THEN [r |-> 255, g |-> 255, b |-> 255]
        ELSE [r |-> t.r, g |-> t.g, b |-> t.b]

\* hexToRgb(targetHex) || {r:0, g:0, b:0}
TargetOf(hex) ==
    LET t == hexToRgb(hex)
    IN  IF t.null THEN [r |-> 0, g |-> 0, b |-> 0]
        ELSE [r |-> t.r, g |-> t.g, b |-> t.b]

\* targetHex.toLowerCase() === '#00ff00'
isGreenScreen(hex) == toLowerCase(hex) = <<"#", "0", "0", "f", "f", "0", "0">>

----------------------------------------------------------------------------
(* removeBgFeathered: per-pixel classification with a feathered edge.      *)
(* tol and smooth are the percentages; edgeStart = tol/100,                *)
(* edgeEnd = max(0, (tol - smooth)/100), range = edgeStart - edgeEnd.      *)

MaxDist == 442

\* 100 * edgeEnd
edgeEndPct(tol, smooth) == Max2(0, tol - smooth)

\* 2 * score, score = distG * 0.5 + distRB; similarity = 1 - score/442
greenScore2(p) == Abs(p.g - 255) + 2 * (Abs(p.r - 0) + Abs(p.b - 0))

\* dr*dr + dg*dg + db*db; similarity = 1 - sqrt(distanceSq / 442^2)
distanceSq(p, t) ==
    (p.r - t.r) * (p.r - t.r) + (p.g - t.g) * (p.g - t.g) + (p.b - t.b) * (p.b - t.b)

\* green similarity >= pct/100:  1 - s2/884 >= pct/100
GreenSimGeq(s2, pct) == 100 * (2 * MaxDist - s2) >= 2 * MaxDist * pct
\* green similarity > pct/100
GreenSimGt(s2, pct) == 100 * (2 * MaxDist - s2) > 2 * MaxDist * pct

\* RGB similarity >= pct/100:  sqrt(d)/442 <= 1 - pct/100, i.e.
\* 50*sqrt(d) <= 221*(100 - pct)
RgbSimGeq(d, pct) ==
    /\ 100 - pct >= 0
    /\ 2500 * d <= (MaxDist \div 2) * (MaxDist \div 2) * (100 - pct) * (100 - pct)
\* RGB similarity > pct/100
RgbSimGt(d, pct) ==
    /\ 100 - pct > 0
    /\ 2500 * d < (MaxDist \div 2) * (MaxDist \div 2) * (100 - pct) * (100 - pct)

\* a slip: the ramp rises with the similarity, 255 * diff / range
greenRampRising(s2, tol, rg) ==
    255 - ((510 * (2 * MaxDist * (tol - 100) + 100 * s2) + 2 * MaxDist * rg)
              \div (4 * MaxDist * rg))

\* Math.round(255 * (1 - diff / range)), green: with rg = 100 * range,
\* 255 * (edgeStart - similarity) / range
\*    = 255 * (884 * (tol - 100) + 100 * s2) / (884 * rg),
\* and Math.round(x) = floor(x + 1/2)
greenRamp(s2, tol, rg) ==
    (510 * (2 * MaxDist * (tol - 100) + 100 * s2) + 2 * MaxDist * rg)
        \div (4 * MaxDist * rg)

\* Math.round(255 * (1 - diff / range)), RGB:
\* 255 * (442 * (tol - 100) + 100 * sqrt(d)) / (442 * rg), rounded half up,
\*    = floor((442 * (510 * (tol - 100) + rg) + 51000 * sqrt(d)) / (884 * rg))
rgbRamp(d, tol, rg) ==
    (MaxDist * (510 * (tol - 100) + rg) + Sqrt51000(d)) \div (2 * MaxDist * rg)

\* lines 41-49: the three zones, green-screen key
greenAlpha(p, tol, smooth) ==
    LET s2 == greenScore2(p)
        ee == edgeEndPct(tol, smooth)
    IN  IF GreenSimGeq(s2, tol) THEN 0
        ELSE IF GreenSimGt(s2, ee) THEN ClampByte(greenRamp(s2, tol, tol - ee))
        ELSE 255

\* lines 66-74: the three zones, RGB key
rgbAlpha(p, t, tol, smooth) ==
    LET d  == distanceSq(p, t)
        ee == edgeEndPct(tol, smooth)
    IN  IF RgbSimGeq(d, tol) THEN 0
        ELSE IF RgbSimGt(d, ee) THEN ClampByte(rgbRamp(d, tol, tol - ee))
        ELSE 255

\* the whole buffer (data.length, whatever width and height are)
removeBgFeathered(d, targetHex, tol, smooth) ==
    IF isGreenScreen(targetHex)
    THEN [i \in 1..Len(d) |-> [d[i] EXCEPT !.a = greenAlpha(d[i], tol, smooth)]]
    ELSE LET t == TargetOf(targetHex)
         IN  [i \in 1..Len(d) |-> [d[i] EXCEPT !.a = rgbAlpha(d[i], t, tol, smooth)]]

----------------------------------------------------------------------------
(* removeBgFloodFill: the background test (lines 119-157).                 *)
(* toleranceFactor = tol/100.                                              *)

\* g > r * greenPurityMultiplier && g > b * greenPurityMultiplier, with
\* greenPurityMultiplier = 1.2 * (1 - tol/200) = 3 * (200 - tol) / 500
\* a slip: the purity multiplier grows with the tolerance
isGreenDominantRising(p, tol) ==
    /\ 500 * p.g > 3 * (200 + tol) * p.r
    /\ 500 * p.g > 3 * (200 + tol) * p.b

isGreenDominant(p, tol) ==
    /\ 500 * p.g > 3 * (200 - tol) * p.r
    /\ 500 * p.g > 3 * (200 - tol) * p.b

\* (g > r + 30) && (g > b + 30) && (g > 80)
isDominantGreen(p) == p.g > p.r + 30 /\ p.g > p.b + 30 /\ p.g > 80

\* hue * delta, for delta # 0 (lines 139-143)
hueTimesDelta(p) ==
    LET max   == Max3(p.r, p.g, p.b)
        min   == Min3(p.r, p.g, p.b)
        delta == max - min
        hd    == IF max = p.g THEN 60 * ((p.b - p.r) + 2 * delta)
                 ELSE IF max = p.r THEN 60 * ((p.g - p.b) + 4 * delta)
                 ELSE 60 * (p.r - p.g)
    IN  IF hd < 0 THEN hd + 360 * delta ELSE hd

\* hue >= 60 && hue <= 180
isGreenHue(p) ==
    LET delta == Max3(p.r, p.g, p.b) - Min3(p.r, p.g, p.b)
    IN  60 * delta <= hueTimesDelta(p) /\ hueTimesDelta(p) <= 180 * delta

\* saturation >= minSat, minSat = max(0.1, 0.5 * (1 - tol/200)), saturation = delta/max
saturationOk(p, tol) ==
    LET max   == Max3(p.r, p.g, p.b)
        delta == max - Min3(p.r, p.g, p.b)
    IN  10 * delta >= max /\ 400 * delta >= (200 - tol) * max

\* value >= minVal, minVal = max(0.1, 0.5 * (1 - tol/200)), value = max/255
valueOk(p, tol) ==
    LET max == Max3(p.r, p.g, p.b)
    IN  10 * max >= 255 /\ 400 * max >= (200 - tol) * 255

\* a slip: the fast path is dropped and every pixel takes the HSV tests
greenIsBgSlowOnly(p, tol) ==
    /\ isGreenDominant(p, tol)
    /\ Max3(p.r, p.g, p.b) - Min3(p.r, p.g, p.b) # 0
    /\ isGreenHue(p)
    /\ saturationOk(p, tol)
    /\ valueOk(p, tol)

\* lines 121-152
greenIsBg(p, tol) ==
    /\ isGreenDominant(p, tol)
    /\ \/ isDominantGreen(p)
       \/ /\ Max3(p.r, p.g, p.b) - Min3(p.r, p.g, p.b) # 0
          /\ isGreenHue(p)
          /\ saturationOk(p, tol)
          /\ valueOk(p, tol)

\* dr*dr + dg*dg + db*db <= toleranceDistSq, toleranceDistSq = (442 * tol/100)^2
rgbIsBg(p, t, tol) ==
    2500 * distanceSq(p, t) <= (MaxDist \div 2) * (MaxDist \div 2) * tol * tol

\* isBg of the pixel at offset; a read past the end of the buffer is
\* undefined and every comparison with it is false
isBg(d, offset, targetHex, tol) ==
    /\ offset < Len(d)
    /\ IF isGreenScreen(targetHex)
       THEN greenIsBg(d[offset + 1], tol)
       ELSE rgbIsBg(d[offset + 1], TargetOf(targetHex), tol)

----------------------------------------------------------------------------
(* removeBgFloodFill: the traversal (lines 105-165).                       *)
(* A traversal order is [seed, nbr, lifo]: the order the corners are       *)
(* seeded in, the order the four neighbours are pushed in, and whether     *)
(* the pending coordinates are popped last-in-first-out.                   *)

Perms4 ==
    {p \in [1..4 -> 1..4] : \A i, j \in 1..4 : i # j => p[i] # p[j]}

\* the order of the source
CodeOrder == [seed |-> <<1, 2, 3, 4>>, nbr |-> <<1, 2, 3, 4>>, lifo |-> TRUE]

\* a slip: the last corner is never seeded
CornersThree(w, h) == << <<0, 0>>, <<w - 1, 0>>, <<0, h - 1>>, <<0, 0>> >>

\* [[0,0], [w-1,0], [0,h-1], [w-1,h-1]]
Corners(w, h) == << <<0, 0>>, <<w - 1, 0>>, <<0, h - 1>>, <<w - 1, h - 1>> >>

\* a slip: [x, y+1] is pushed twice and [x, y-1] never
NeighboursNoUp(x, y) ==
    << <<x + 1, y>>, <<x - 1, y>>, <<x, y + 1>>, <<x, y + 1>> >>

\* a slip: the first neighbour pushed is a diagonal one
NeighboursDiagonal(x, y) ==
    << <<x + 1, y + 1>>, <<x - 1, y>>, <<x, y + 1>>, <<x, y - 1>> >>

\* [x+1, y], [x-1, y], [x, y+1], [x, y-1]
Neighbours(x, y) == << <<x + 1, y>>, <<x - 1, y>>, <<x, y + 1>>, <<x, y - 1>> >>

Permuted(s, perm) == [i \in 1..4 |-> s[perm[i]]]

\* the state of the loop at its start: stack and visited = new Uint8Array(w*h)
FloodStart(d, w, h, ord) ==
    [stack   |-> Permuted(Corners(w, h), ord.seed),
     visited |-> [o \in 0..(w * h - 1) |-> 0],
     data    |-> d]

\* stack.pop()
Top(st, ord) == IF ord.lifo THEN st.stack[Len(st.stack)] ELSE Head(st.stack)
Popped(st, ord) ==
    IF ord.lifo THEN SubSeq(st.stack, 1, Len(st.stack) - 1) ELSE Tail(st.stack)

\* x < 0 || x >= w || y < 0 || y >= h || visited[offset]
Skipped(st, w, h, ord) ==
    LET x == Top(st, ord)[1]
        y == Top(st, ord)[2]
    IN  IF x < 0 \/ x >= w \/ y < 0 \/ y >= h THEN TRUE
        ELSE st.visited[y * w + x] = 1

\* data[idx+3] = 0; a store past the end of the buffer is dropped
ClearAlpha(d, offset) ==
    IF offset < Len(d) THEN [d EXCEPT ![offset + 1].a = 0] ELSE d

\* a slip: only a cleared pixel is marked visited
FloodStepNoMark(st, w, h, targetHex, tol, ord) ==
    LET x      == Top(st, ord)[1]
        y      == Top(st, ord)[2]
        offset == y * w + x
    IN  IF Skipped(st, w, h, ord)
        THEN [st EXCEPT !.stack = Popped(st, ord)]
        ELSE IF isBg(st.data, offset, targetHex, tol)
        THEN [stack   |-> Popped(st, ord) \o Permuted(Neighbours(x, y), ord.nbr),
              visited |-> [st.visited EXCEPT ![offset] = 1],
              data    |-> ClearAlpha(st.data, offset)]
        ELSE [stack   |-> Popped(st, ord),
              visited |-> st.visited,
              data    |-> st.data]

\* a slip: break where the source has continue, so that the first coordinate
\* skipped ends the loop
FloodStepBreak(st, w, h, targetHex, tol, ord) ==
    LET x      == Top(st, ord)[1]
        y      == Top(st, ord)[2]
        offset == y * w + x
    IN  IF Skipped(st, w, h, ord)
        THEN [st EXCEPT !.stack = <<>>]
        ELSE IF isBg(st.data, offset, targetHex, tol)
        THEN [stack   |-> Popped(st, ord) \o Permuted(Neighbours(x, y), ord.nbr),
              visited |-> [st.visited EXCEPT ![offset] = 1],
              data    |-> ClearAlpha(st.data, offset)]
        ELSE [stack   |-> Popped(st, ord),
              visited |-> [st.visited EXCEPT ![offset] = 1],
              data    |-> st.data]

\* one iteration of while(stack.length), for a non-empty stack
FloodStep(st, w, h, targetHex, tol, ord) ==
    LET x      == Top(st, ord)[1]
        y      == Top(st, ord)[2]
        offset == y * w + x
    IN  IF Skipped(st, w, h, ord)
        THEN [st EXCEPT !.stack = Popped(st, ord)]
        ELSE IF isBg(st.data, offset, targetHex, tol)
        THEN [stack   |-> Popped(st, ord) \o Permuted(Neighbours(x, y), ord.nbr),
              visited |-> [st.visited EXCEPT ![offset] = 1],
              data    |-> ClearAlpha(st.data, offset)]
        ELSE [stack   |-> Popped(st, ord),
              visited |-> [st.visited EXCEPT ![offset] = 1],
              data    |-> st.data]

RECURSIVE FloodRun(_, _, _, _, _, _)
\* the loop, run to its end
FloodRun(st, w, h, targetHex, tol, ord) ==
    IF st.stack = <<>> THEN st
    ELSE FloodRun(FloodStep(st, w, h, targetHex, tol, ord), w, h, targetHex, tol, ord)

\* the whole function: the buffer it returns
removeBgFloodFill(d, w, h, targetHex, tol) ==
    FloodRun(FloodStart(d, w, h, CodeOrder), w, h, targetHex, tol, CodeOrder).data

----------------------------------------------------------------------------
(* applyErosion (lines 170-201) *)

\* currentAlpha[i] = data[i*4+3]; an undefined read is stored as 0
AlphaSnapshot(d, w, h) ==
    [i \in 0..(w * h - 1) |-> IF i < Len(d) THEN d[i + 1].a ELSE 0]

\* a slip: the columns are scanned from x = 0
ErodeScanFromZero(w, h) ==
    {y * w + x : x \in 0..(w - 2), y \in 1..(h - 2)}

\* for (let y = 1; y < h-1; y++) for (let x = 1; x < w-1; x++): the offsets
ErodeScan(w, h) ==
    {y * w + x : x \in 1..(w - 2), y \in 1..(h - 2)}

\* lines 188-196: the pixel at idx is cleared by this iteration
Eroded(cur, idx, w) ==
    /\ cur[idx] # 0
    /\ \/ cur[idx - 1] = 0
       \/ cur[idx + 1] = 0
       \/ cur[idx - w] = 0
       \/ cur[idx + w] = 0

\* a slip: no snapshot; the scan reads the alphas it has already written
RECURSIVE ErodeLiveFrom(_, _, _, _)
ErodeLiveFrom(d, w, h, i) ==
    IF i >= w * h THEN d
    ELSE ErodeLiveFrom(IF i \in ErodeScan(w, h) /\ Eroded(AlphaSnapshot(d, w, h), i, w)
                       THEN [d EXCEPT ![i + 1].a = 0]
                       ELSE d,
                       w, h, i + 1)

ErodeOnceLive(d, w, h) == ErodeLiveFrom(d, w, h, 0)

\* one iteration of the for (k) loop
ErodeOnce(d, w, h) ==
    LET cur == AlphaSnapshot(d, w, h)
    IN  [i \in 1..Len(d) |->
            IF (i - 1) \in ErodeScan(w, h) /\ Eroded(cur, i - 1, w)
            THEN [d[i] EXCEPT !.a = 0]
            ELSE d[i]]

RECURSIVE ErodeTimes(_, _, _, _)
ErodeTimes(d, w, h, n) ==
    IF n <= 0 THEN d ELSE ErodeTimes(ErodeOnce(d, w, h), w, h, n - 1)

\* if (strength <= 0) return imgData; for (k = 0; k < strength; k++) ...
applyErosion(d, w, h, strength) ==
    IF strength <= 0 THEN d ELSE ErodeTimes(d, w, h, strength)

----------------------------------------------------------------------------
(* self.onmessage (lines 205-223): the handler, step by step *)

\* a slip: the mode is compared without regard to case
UsesFloodAnyCase(mode) == mode \in {"flood", "Flood", "FLOOD"}

\* removalMode === 'flood'
UsesFlood(mode) == mode = "flood"

\* the message handed to self.postMessage
Response(r, d) ==
    [id |-> r.id,
     processedImageData |->
        [width |-> r.rawImageData.width, height |-> r.rawImageData.height, data |-> d]]

\* line 212
MatteFlood ==
    /\ pc = "received"
    /\ UsesFlood(req.removalMode)
    /\ data' = removeBgFloodFill(data, req.width, req.height,
                                 req.targetColorHex, req.colorTolerance)
    /\ pc' = "matted"
    /\ log' = Append(log, "flood")
    /\ UNCHANGED <<req, stack, visited, order, k, outbox, pushed, tested>>

\* line 215
MatteFeathered ==
    /\ pc = "received"
    /\ ~UsesFlood(req.removalMode)
    /\ data' = removeBgFeathered(data, req.targetColorHex,
                                 req.colorTolerance, req.smoothness)
    /\ pc' = "matted"
    /\ log' = Append(log, "global")
    /\ UNCHANGED <<req, stack, visited, order, k, outbox, pushed, tested>>

\* line 219
Erode ==
    /\ pc = "matted"
    /\ data' = applyErosion(data, req.width, req.height, req.erodeStrength)
    /\ pc' = "eroded"
    /\ log' = Append(log, "erode")
    /\ UNCHANGED <<req, stack, visited, order, k, outbox, pushed, tested>>

\* line 222
Post ==
    /\ pc = "eroded"
    /\ outbox' = Append(outbox, Response(req, data))
    /\ pc' = "posted"
    /\ log' = Append(log, "post")
    /\ UNCHANGED <<req, data, stack, visited, order, k, pushed, tested>>

----------------------------------------------------------------------------
(* removeBgFloodFill, one pop at a time *)

FloodState == [stack |-> stack, visited |-> visited, data |-> data]

FloodNext ==
    FloodStep(FloodState, req.width, req.height,
              req.targetColorHex, req.colorTolerance, order)

\* lines 83-107: entry, up to the first test of while(stack.length)
FloodSeed ==
    /\ pc = "received"
    /\ UsesFlood(req.removalMode)
    /\ LET st == FloodStart(data, req.width, req.height, order)
       IN  /\ stack' = st.stack /\ visited' = st.visited
           /\ pushed' = Len(st.stack)
           /\ tested' = [o \in DOMAIN st.visited |-> 0]
    /\ pc' = "flood"
    /\ UNCHANGED <<req, data, order, k, outbox, log>>

\* line 113: continue
FloodSkip ==
    /\ pc = "flood"
    /\ stack # <<>>
    /\ Skipped(FloodState, req.width, req.height, order)
    /\ LET nx == FloodNext
       IN  /\ stack' = nx.stack /\ visited' = nx.visited /\ data' = nx.data
           /\ pushed' = pushed + Len(nx.stack) - (Len(stack) - 1)
    /\ UNCHANGED <<req, pc, order, k, outbox, log, tested>>

\* lines 114-164, isBg true
FloodClear ==
    /\ pc = "flood"
    /\ stack # <<>>
    /\ ~Skipped(FloodState, req.width, req.height, order)
    /\ isBg(data, Top(FloodState, order)[2] * req.width + Top(FloodState, order)[1],
            req.targetColorHex, req.colorTolerance)
    /\ LET nx == FloodNext
       IN  /\ stack' = nx.stack /\ visited' = nx.visited /\ data' = nx.data
           /\ pushed' = pushed + Len(nx.stack) - (Len(stack) - 1)
    /\ tested' = [tested EXCEPT
                     ![Top(FloodState, order)[2] * req.width + Top(FloodState, order)[1]] = @ + 1]
    /\ UNCHANGED <<req, pc, order, k, outbox, log>>

\* lines 114-164, isBg false
FloodKeep ==
    /\ pc = "flood"
    /\ stack # <<>>
    /\ ~Skipped(FloodState, req.width, req.height, order)
    /\ ~isBg(data, Top(FloodState, order)[2] * req.width + Top(FloodState, order)[1],
             req.targetColorHex, req.colorTolerance)
    /\ LET nx == FloodNext
       IN  /\ stack' = nx.stack /\ visited' = nx.visited /\ data' = nx.data
           /\ pushed' = pushed + Len(nx.stack) - (Len(stack) - 1)
    /\ tested' = [tested EXCEPT
                     ![Top(FloodState, order)[2] * req.width + Top(FloodState, order)[1]] = @ + 1]
    /\ UNCHANGED <<req, pc, order, k, outbox, log>>

\* line 166: the loop has ended
FloodReturn ==
    /\ pc = "flood"
    /\ stack = <<>>
    /\ pc' = "matted"
    /\ log' = Append(log, "flood")
    /\ UNCHANGED <<req, data, stack, visited, order, k, outbox, pushed, tested>>

----------------------------------------------------------------------------
(* applyErosion, one iteration at a time *)

\* a slip: no early return, and the loop runs while k <= strength
ErodeDoneInclusive(strength, n) == n > strength

\* strength <= 0 (line 171), or the loop condition k < strength is false
ErodeDone(strength, n) == strength <= 0 \/ n >= strength

\* lines 175-199: one iteration
ErodeIter ==
    /\ pc = "erode"
    /\ ~ErodeDone(req.erodeStrength, k)
    /\ data' = ErodeOnce(data, req.width, req.height)
    /\ k' = k + 1
    /\ UNCHANGED <<req, pc, stack, visited, order, outbox, log, pushed, tested>>

\* lines 171 and 200
ErodeReturn ==
    /\ pc = "erode"
    /\ ErodeDone(req.erodeStrength, k)
    /\ pc' = "eroded"
    /\ log' = Append(log, "erode")
    /\ UNCHANGED <<req, data, stack, visited, order, k, outbox, pushed, tested>>

----------------------------------------------------------------------------
(* The requests the model is run on *)

Px(r, g, b, a) == [r |-> r, g |-> g, b |-> b, a |-> a]
PxGreen == Px(0, 255, 0, 255)
PxRed == Px(255, 0, 0, 200)

KeyGreen == <<"#", "0", "0", "F", "F", "0", "0">>
KeyRed == <<"#", "f", "f", "0", "0", "0", "0">>
KeyBad == <<"r", "e", "d">>

\* <<width, height>>
Dims == {d \in (1..MaxDim) \X (1..MaxDim) : d[1] * d[2] <= MaxPixels}

MkReq(id, w, h, buf, mode, hex, tol, smooth, strength) ==
    [id |-> id,
     rawImageData |-> [width |-> w, height |-> h, data |-> buf],
     width |-> w, height |-> h,
     removalMode |-> mode, targetColorHex |-> hex,
     colorTolerance |-> tol, smoothness |-> smooth, erodeStrength |-> strength]

\* the handler has received req and run nothing yet
Received(r) ==
    /\ req = r
    /\ data = r.rawImageData.data
    /\ pc = "received"
    /\ stack = <<>>
    /\ visited = <<>>
    /\ k = 0
    /\ outbox = <<>>
    /\ log = <<>>
    /\ pushed = 0
    /\ tested = <<>>

\* every image of two colours
Images(w, h, palette) == [1..(w * h) -> palette]

\* flood mode on every image of two colours
FloodReceived(keys, tols) ==
    \E d \in Dims, key \in keys, tol \in tols :
        \E img \in Images(d[1], d[2], {PxGreen, PxRed}) :
            Received(MkReq(1, d[1], d[2], img, "flood", key, tol, 0, 0))

InitFlood ==
    /\ FloodReceived({KeyGreen, KeyRed, KeyBad}, {0, 50, 100})
    /\ order = CodeOrder

NextFlood == FloodSeed \/ FloodSkip \/ FloodClear \/ FloodKeep \/ FloodReturn

SpecFlood == InitFlood /\ [][NextFlood]_vars

\* the traversal orders tried: every push order of the neighbours with either
\* end of the pending list popped, and the corners seeded backwards
Orders ==
    {[seed |-> <<1, 2, 3, 4>>, nbr |-> n, lifo |-> l] : n \in Perms4, l \in BOOLEAN}
    \cup {[seed |-> <<4, 3, 2, 1>>, nbr |-> <<1, 2, 3, 4>>, lifo |-> l] : l \in BOOLEAN}

InitOrder ==
    /\ FloodReceived({KeyGreen}, {50})
    /\ order \in Orders

SpecOrder == InitOrder /\ [][NextFlood]_vars

\* applyErosion entered on a buffer whose alpha plane is arbitrary
InitErode ==
    /\ \E d \in Dims, n \in (-1)..MaxStrength :
          \E img \in Images(d[1], d[2], {Px(255, 0, 0, 0), Px(255, 0, 0, 255)}) :
              /\ req = MkReq(1, d[1], d[2], img, "global", KeyGreen, 50, 0, n)
              /\ data = img
    /\ pc = "erode"
    /\ stack = <<>>
    /\ visited = <<>>
    /\ order = CodeOrder
    /\ k = 0
    /\ outbox = <<>>
    /\ log = <<"global">>
    /\ pushed = 0
    /\ tested = <<>>

NextErode == ErodeIter \/ ErodeReturn

SpecErode == InitErode /\ [][NextErode]_vars

\* feathered mode on a buffer of two pixels
Channel == {0, 128, 255}
FeatherPixels == {Px(r, g, b, 255) : r \in Channel, g \in Channel, b \in Channel}
FeatherTolerances == {-50, 0, 30, 50, 100, 150}
FeatherSmoothness == {-10, 0, 20, 50, 150}

InitFeather ==
    /\ \E pa \in FeatherPixels, pb \in FeatherPixels, key \in {KeyGreen, KeyRed},
          tol \in FeatherTolerances, sm \in FeatherSmoothness :
              Received(MkReq(1, 2, 1, <<pa, pb>>, "global", key, tol, sm, 0))
    /\ order = CodeOrder

NextFeather == MatteFeathered

SpecFeather == InitFeather /\ [][NextFeather]_vars

\* the whole handler, on a few images of every size; the buffer holds
\* bufLen pixels, which may differ from width * height
Patterns == {"green", "red", "ring", "island", "left"}

PatternPixel(pat, x, y, w, h) ==
    LET border == x = 0 \/ y = 0 \/ x = w - 1 \/ y >= h - 1
    IN  CASE pat = "green"  -> PxGreen
          [] pat = "red"    -> PxRed
          [] pat = "ring"   -> IF border THEN PxRed ELSE PxGreen
          [] pat = "island" -> IF border THEN PxGreen ELSE PxRed
          [] pat = "left"   -> IF x = 0 THEN PxGreen ELSE PxRed

PatternImage(pat, w, h, bufLen) ==
    [i \in 1..bufLen |-> PatternPixel(pat, (i - 1) % w, (i - 1) \div w, w, h)]

Modes == {"flood", "global", "Flood"}
Tolerances == {-50, 0, 50, 150}
Smoothness == {-10, 20, 150}

Init ==
    /\ \E d \in Dims, pat \in Patterns, extra \in {-1, 0, 1}, mode \in Modes,
          key \in {KeyGreen, KeyRed}, tol \in Tolerances, sm \in Smoothness,
          n \in (-1)..MaxStrength :
              Received(MkReq(1, d[1], d[2],
                             PatternImage(pat, d[1], d[2], d[1] * d[2] + extra),
                             mode, key, tol, sm, n))
    /\ order = CodeOrder

Next == MatteFlood \/ MatteFeathered \/ Erode \/ Post

Spec == Init /\ [][Next]_vars

----------------------------------------------------------------------------
(* Connectivity of the image, for the statements about the flood fill *)

W == req.width
H == req.height
Original == req.rawImageData.data
Offsets == 0..(W * H - 1)
XOf(o) == o % W
YOf(o) == o \div W

\* the pixels that pass the background test
Background ==
    {o \in Offsets : isBg(Original, o, req.targetColorHex, req.colorTolerance)}

\* the outermost rows and columns; the four corners
Border == {o \in Offsets : XOf(o) = 0 \/ XOf(o) = W - 1 \/ YOf(o) = 0 \/ YOf(o) = H - 1}
CornerSet ==
    {o \in Offsets : (XOf(o) = 0 \/ XOf(o) = W - 1) /\ (YOf(o) = 0 \/ YOf(o) = H - 1)}

Adjacent(o, q) == Abs(XOf(o) - XOf(q)) + Abs(YOf(o) - YOf(q)) = 1

RECURSIVE JoinedIn(_, _)
\* the pixels of bg joined to a pixel of s by a 4-neighbour path of pixels
\* of bg (s is a subset of bg)
JoinedIn(s, bg) ==
    LET more == {o \in bg \ s : \E q \in s : Adjacent(o, q)}
    IN  IF more = {} THEN s ELSE JoinedIn(s \cup more, bg)

Alpha(o) == data[o + 1].a
OriginalAlpha(o) == Original[o + 1].a

----------------------------------------------------------------------------
(* C1: in flood mode a pixel that no 4-neighbour path of background pixels  *)
(* joins to the outermost row or column keeps its input alpha, at every     *)
(* point of the fill and at its end: an enclosed background patch is never  *)
(* cleared.                                                                 *)
C1_EnclosedKept ==
    LET bg == Background
    IN  \A o \in Offsets \ JoinedIn(Border \cap bg, bg) : Alpha(o) = OriginalAlpha(o)

\* the fill has ended, it cleared something, and a background pixel enclosed
\* by foreground is still opaque
C1_Witness ==
    /\ pc = "matted"
    /\ \E o \in Offsets : Alpha(o) = 0
    /\ LET bg == Background
       IN  \E o \in bg \ JoinedIn(Border \cap bg, bg) : Alpha(o) = 255

(* C2 as stated: every background region that touches the border, at a     *)
(* corner or not, is fully cleared when the fill has ended.                 *)
C2_BorderRegionCleared ==
    pc = "matted" =>
        LET bg == Background
        IN  \A o \in JoinedIn(Border \cap bg, bg) : Alpha(o) = 0

(* C2, amended: every 4-connected region of background pixels that holds    *)
(* one of the four corner pixels is fully cleared when the fill has ended.  *)
C2_CornerRegionCleared ==
    pc = "matted" =>
        LET bg == Background
        IN  \A o \in bg :
                LET region == JoinedIn({o}, bg)
                IN  region \cap CornerSet # {} => \A q \in region : Alpha(q) = 0

\* a region that holds a corner and pixels that are no corner has been cleared
C2_Witness ==
    /\ pc = "matted"
    /\ LET bg == Background
       IN  \E o \in bg \cap CornerSet :
              LET region == JoinedIn({o}, bg)
              IN  /\ region \ CornerSet # {}
                  /\ \A q \in region : Alpha(q) = 0 /\ OriginalAlpha(q) # 0

(* C3: the buffer the fill ends with is the same for every traversal order: *)
(* whatever the order of seeding, popping and pushing, it is the buffer the *)
(* order of the source produces.                                            *)
C3_OrderIndependent ==
    pc = "matted" =>
        data = removeBgFloodFill(Original, W, H, req.targetColorHex, req.colorTolerance)

\* a fill in another order than the source's (first-in-first-out, another
\* push order) has ended, having cleared some pixels and kept others
C3_Witness ==
    /\ pc = "matted"
    /\ ~order.lifo
    /\ order.nbr # CodeOrder.nbr
    /\ \E o \in Offsets : Alpha(o) = 0
    /\ \E o \in Offsets : visited[o] = 1 /\ Alpha(o) # 0
    /\ \E o \in Offsets : visited[o] = 0

----------------------------------------------------------------------------
(* The handler as a function of the request, for comparing runs *)

Clamp(v, lo, hi) == IF v < lo THEN lo ELSE IF v > hi THEN hi ELSE v

\* the buffer the handler posts for request r run with tolerance tol,
\* smoothness sm and erosion strength n
Handled(r, tol, sm, n) ==
    LET matte == IF r.removalMode = "flood"
                 THEN removeBgFloodFill(r.rawImageData.data, r.width, r.height,
                                        r.targetColorHex, tol)
                 ELSE removeBgFeathered(r.rawImageData.data, r.targetColorHex, tol, sm)
    IN  applyErosion(matte, r.width, r.height, n)

(* C4: a request whose buffer does not hold width * height pixels is        *)
(* refused before any byte is changed: its buffer stays as it arrived and   *)
(* no response is built from it.                                            *)
C4_MismatchFailsFast ==
    Len(Original) # W * H => data = Original /\ outbox = <<>>

(* C5: a request with an out-of-range tolerance, smoothness or erosion      *)
(* strength ends with the buffer the same request ends with when the value  *)
(* is clamped to its range.                                                 *)
C5_OutOfRangeClamped ==
    (pc = "posted" /\ Len(Original) = W * H) =>
        data = Handled(req, Clamp(req.colorTolerance, 0, 100),
                       Clamp(req.smoothness, 0, 100), Max2(0, req.erodeStrength))

(* C6: the handler runs one matte step, the flood fill exactly when         *)
(* removalMode is "flood" and the feathered matte otherwise, then the       *)
(* erosion, then posts one response; nothing is posted before the erosion   *)
(* has ended, and the response carries the request's id and the same        *)
(* buffer, with the width, height and length it arrived with.               *)
C6_StepsInOrder ==
    LET expected == <<IF req.removalMode = "flood" THEN "flood" ELSE "global",
                      "erode", "post">>
    IN  /\ Len(log) <= 3
        /\ log = SubSeq(expected, 1, Len(log))
        /\ pc # "posted" => outbox = <<>>
        /\ pc = "posted" =>
              /\ log = expected
              /\ outbox = <<[id |-> req.id,
                             processedImageData |->
                                [width  |-> req.rawImageData.width,
                                 height |-> req.rawImageData.height,
                                 data   |-> data]]>>
              /\ Len(data) = Len(Original)
              /\ data = Handled(req, req.colorTolerance, req.smoothness,
                                req.erodeStrength)

\* a request whose mode is not exactly "flood" has been answered, the
\* feathered matte having changed its buffer
C6_Witness ==
    /\ pc = "posted"
    /\ req.removalMode = "Flood"
    /\ log = <<"global", "erode", "post">>
    /\ data # Original
    /\ Len(outbox) = 1

(* C7: the erosion never changes the alpha of a pixel of the outermost row  *)
(* or column, whatever the strength; an image narrower or lower than three  *)
(* pixels is left as it was.                                                *)
C7_BorderKept ==
    /\ \A o \in Border : Alpha(o) = OriginalAlpha(o)
    /\ (W < 3 \/ H < 3) => data = Original

\* the erosion has cleared a pixel, and a border pixel next to a transparent
\* pixel is still opaque
C7_Witness ==
    /\ pc = "eroded"
    /\ req.erodeStrength > 0
    /\ data # Original
    /\ \E o \in Border : \E q \in Offsets :
          Adjacent(o, q) /\ OriginalAlpha(q) = 0 /\ Alpha(o) = 255

(* C8: in feathered mode with the green-screen key, a pixel equal to        *)
(* (0,255,0) gets alpha 0 for every tolerance >= 0 and every smoothness.    *)
C8_PureGreenCleared ==
    (pc = "matted" /\ isGreenScreen(req.targetColorHex) /\ req.colorTolerance >= 0) =>
        \A i \in 1..Len(data) :
            (data[i].r = 0 /\ data[i].g = 255 /\ data[i].b = 0) => data[i].a = 0

\* pixel p is at least as similar to the key as pixel q
SimilarityGeq(p, q) ==
    IF isGreenScreen(req.targetColorHex)
    THEN greenScore2(p) <= greenScore2(q)
    ELSE distanceSq(p, TargetOf(req.targetColorHex))
            <= distanceSq(q, TargetOf(req.targetColorHex))

(* C9: in feathered mode, for one tolerance and smoothness, a pixel at      *)
(* least as similar to the key as another gets an alpha not above the       *)
(* other's.                                                                 *)
C9_AlphaMonotone ==
    pc = "matted" =>
        (SimilarityGeq(Original[1], Original[2]) => data[1].a <= data[2].a)

\* both pixels fell on the ramp, the more similar one lower
C9_Witness ==
    /\ pc = "matted"
    /\ SimilarityGeq(Original[1], Original[2])
    /\ 0 < data[1].a /\ data[1].a < data[2].a /\ data[2].a < 255

(* C10: the erosion run with a strength of 0 or less changes no byte of the *)
(* buffer.                                                                  *)
C10_NoStrengthIdentity ==
    req.erodeStrength <= 0 => data = Original

\* the erosion has returned on strength 0 from a buffer that one iteration
\* would have changed
C10_Witness ==
    /\ pc = "eroded"
    /\ req.erodeStrength = 0
    /\ ErodeOnce(data, W, H) # data

----------------------------------------------------------------------------
(* The handler on well-formed and malformed colour keys *)

PxDark == Px(10, 20, 10, 255)
KeyBlack == <<"#", "0", "0", "0", "0", "0", "0">>

HexKeys ==
    {KeyBlack, KeyGreen,
     <<"0", "0", "f", "f", "0", "0">>,
     KeyBad,
     <<>>,
     <<"#">>,
     <<"#", "f", "0", "0">>,
     <<"#", "0", "0", "f", "f", "0">>,
     <<"#", "0", "0", "f", "f", "0", "0", "0">>,
     <<"#", "#", "0", "0", "f", "f", "0", "0">>,
     <<"#", "0", "0", "g", "g", "0", "0">>,
     <<"0", "0", "f", "f", "0", "0", " ">>}

\* the pattern images, with a near-black pixel in place of the green one
DarkImage(pat, w, h) ==
    [i \in 1..(w * h) |->
        IF PatternPixel(pat, (i - 1) % w, (i - 1) \div w, w, h) = PxGreen
        THEN PxDark ELSE PxRed]

InitHex ==
    /\ \E d \in Dims, pat \in Patterns, mode \in {"flood", "global"},
          key \in HexKeys, tol \in {0, 10, 60}, sm \in {0, 20}, n \in {0, 1} :
              Received(MkReq(1, d[1], d[2], DarkImage(pat, d[1], d[2]),
                             mode, key, tol, sm, n))
    /\ order = CodeOrder

SpecHex == InitHex /\ [][Next]_vars

\* six hex digits after an optional leading '#', in the claim's own terms
SixHexDigits(hex) ==
    LET digits == {"0", "1", "2", "3", "4", "5", "6", "7", "8", "9",
                   "a", "b", "c", "d", "e", "f", "A", "B", "C", "D", "E", "F"}
        from   == IF Len(hex) = 7 /\ hex[1] = "#" THEN 2 ELSE 1
    IN  /\ Len(hex) - from + 1 = 6
        /\ \A i \in from..Len(hex) : hex[i] \in digits

(* C11: for a targetColorHex that is not six hex digits with an optional    *)
(* leading '#', the handler, in flood and in global mode, posts the buffer  *)
(* it posts for the key "#000000", as an ordinary response.                 *)
C11_MalformedIsBlack ==
    (pc = "posted" /\ ~SixHexDigits(req.targetColorHex)) =>
        /\ data = Handled([req EXCEPT !.targetColorHex = KeyBlack],
                          req.colorTolerance, req.smoothness, req.erodeStrength)
        /\ outbox = <<Response(req, data)>>

\* a request with a malformed key has been answered, with some pixels
\* cleared and others not
C11_Witness ==
    /\ pc = "posted"
    /\ ~SixHexDigits(req.targetColorHex)
    /\ \E i \in 1..Len(data) : data[i].a = 0 /\ Original[i].a # 0
    /\ \E i \in 1..Len(data) : data[i].a # 0

----------------------------------------------------------------------------
(* C12: when the fill has ended, every pixel joined to a corner pixel by a  *)
(* 4-neighbour path of background pixels, the corner included, has alpha 0; *)
(* an image whose every pixel is background is cleared whole.               *)
C12_CornerJoinedCleared ==
    pc = "matted" =>
        LET bg == Background
        IN  /\ \A o \in JoinedIn(CornerSet \cap bg, bg) : Alpha(o) = 0
            /\ bg = Offsets => \A i \in 1..Len(data) : data[i].a = 0

\* the largest image, every pixel (0,255,0), green-screen key, tolerance 50:
\* the fill has ended and every alpha is 0
C12_Witness ==
    /\ pc = "matted"
    /\ W = MaxDim /\ H = MaxDim
    /\ isGreenScreen(req.targetColorHex)
    /\ req.colorTolerance = 50
    /\ \A i \in 1..Len(data) : Original[i] = PxGreen /\ data[i].a = 0

----------------------------------------------------------------------------
(* The background test of removeBgFloodFill, pixel by pixel: 1x1 images    *)
(* over a grid of colours, and 3x1 strips over colours whose test result   *)
(* changes with the tolerance.                                             *)
PixelChannel == {0, 70, 100, 200, 235, 255}

GridPixels == {Px(r, g, b, 255) : r \in PixelChannel, g \in PixelChannel, b \in PixelChannel}

StripPixels ==
    {PxGreen, Px(200, 235, 0, 255), Px(100, 70, 100, 255), Px(255, 0, 0, 255),
     Px(200, 70, 0, 255)}

PixelTolerances == {0, 25, 50, 75, 100}

InitPixel ==
    /\ \E key \in {KeyGreen, KeyRed}, tol \in PixelTolerances :
          \/ \E img \in Images(1, 1, GridPixels) :
                Received(MkReq(1, 1, 1, img, "flood", key, tol, 0, 0))
          \/ \E img \in Images(3, 1, StripPixels) :
                Received(MkReq(1, 3, 1, img, "flood", key, tol, 0, 0))
    /\ order = CodeOrder

SpecPixel == InitPixel /\ [][NextFlood]_vars

\* the hue of the HSV colour model, times delta, for delta # 0:
\* 60 * (((g-b)/delta) mod 6) when red is the maximum, 60 * ((b-r)/delta + 2)
\* when green is, 60 * ((r-g)/delta + 4) when blue is
HsvHueTimesDelta(p) ==
    LET max   == Max3(p.r, p.g, p.b)
        delta == max - Min3(p.r, p.g, p.b)
    IN  IF max = p.r
        THEN IF p.g >= p.b THEN 60 * (p.g - p.b)
             ELSE 60 * (p.g - p.b) + 360 * delta
        ELSE IF max = p.g THEN 60 * ((p.b - p.r) + 2 * delta)
        ELSE 60 * ((p.r - p.g) + 4 * delta)

\* the HSV hue lies in [60, 180]; a grey pixel has no hue
HsvHueIsGreen(p) ==
    LET delta == Max3(p.r, p.g, p.b) - Min3(p.r, p.g, p.b)
    IN  /\ delta # 0
        /\ 60 * delta <= HsvHueTimesDelta(p)
        /\ HsvHueTimesDelta(p) <= 180 * delta

(* C13: with the green-screen key and a tolerance in [0, 100], a pixel     *)
(* whose HSV hue lies outside [60, 180] degrees is never classified as     *)
(* background: the fill leaves its alpha alone.                            *)
C13_HueGate ==
    (pc = "matted" /\ isGreenScreen(req.targetColorHex)
        /\ req.colorTolerance \in 0..100) =>
        \A o \in Offsets :
            ~HsvHueIsGreen(Original[o + 1]) =>
                /\ ~isBg(Original, o, req.targetColorHex, req.colorTolerance)
                /\ Alpha(o) = OriginalAlpha(o)

(* C14 as stated: with the green-screen key and a tolerance in [0, 100],   *)
(* every visited pixel with g > r + 30, g > b + 30 and g > 80 is cleared,  *)
(* whatever the tolerance-derived thresholds.                              *)
C14_FastPathAlways ==
    (pc = "matted" /\ isGreenScreen(req.targetColorHex)
        /\ req.colorTolerance \in 0..100) =>
        \A o \in Offsets :
            (visited[o] = 1 /\ isDominantGreen(Original[o + 1])) => Alpha(o) = 0

(* C14 amended: every visited pixel with g > r + 30, g > b + 30 and g > 80 *)
(* that also passes the purity gate g > r*m, g > b*m is cleared, whatever  *)
(* its hue, saturation and value; one that fails the purity gate is not    *)
(* classified as background.                                               *)
C14_FastPathInsideGate ==
    (pc = "matted" /\ isGreenScreen(req.targetColorHex)
        /\ req.colorTolerance \in 0..100) =>
        \A o \in Offsets :
            (visited[o] = 1 /\ isDominantGreen(Original[o + 1])) =>
                IF isGreenDominant(Original[o + 1], req.colorTolerance)
                THEN Alpha(o) = 0
                ELSE Alpha(o) = OriginalAlpha(o)

\* a visited fast-path pixel whose saturation is below minSat was cleared
C14_Witness ==
    /\ pc = "matted"
    /\ isGreenScreen(req.targetColorHex)
    /\ \E o \in Offsets :
          /\ visited[o] = 1
          /\ isDominantGreen(Original[o + 1])
          /\ ~saturationOk(Original[o + 1], req.colorTolerance)
          /\ Alpha(o) = 0 /\ OriginalAlpha(o) # 0

\* the offsets the fill clears at tolerance t
ClearedAt(t) ==
    LET out == removeBgFloodFill(Original, W, H, req.targetColorHex, t)
    IN  {o \in Offsets : out[o + 1].a = 0}

(* C17: for tolerances 0 <= t <= t' <= 100, every pixel that passes the    *)
(* background test at t passes it at t', and every pixel the fill clears   *)
(* at t is cleared at t'.                                                  *)
C17_ToleranceMonotone ==
    pc = "matted" =>
        \A t \in PixelTolerances :
            t >= req.colorTolerance =>
                /\ \A o \in Offsets :
                      isBg(Original, o, req.targetColorHex, req.colorTolerance)
                          => isBg(Original, o, req.targetColorHex, t)
                /\ {o \in Offsets : Alpha(o) = 0} \subseteq ClearedAt(t)

\* the fill cleared some pixel and left another that the largest tolerance clears
C17_Witness ==
    /\ pc = "matted"
    /\ req.colorTolerance < 100
    /\ \E o \in Offsets : Alpha(o) = 0
    /\ \E o \in Offsets : Alpha(o) # 0 /\ o \in ClearedAt(100)

----------------------------------------------------------------------------
(* applyErosion, iteration by iteration, on images with two interior       *)
(* pixels, so that a second layer exists.                                  *)
LayerDims == {<<4, 3>>, <<3, 4>>}

InitLayers ==
    /\ \E d \in LayerDims, n \in (-1)..MaxStrength :
          \E img \in Images(d[1], d[2], {Px(255, 0, 0, 0), Px(255, 0, 0, 255)}) :
              /\ req = MkReq(1, d[1], d[2], img, "global", KeyGreen, 50, 0, n)
              /\ data = img
    /\ pc = "erode"
    /\ stack = <<>>
    /\ visited = <<>>
    /\ order = CodeOrder
    /\ k = 0
    /\ outbox = <<>>
    /\ log = <<"global">>
    /\ pushed = 0
    /\ tested = <<>>

SpecLayers == InitLayers /\ [][NextErode]_vars

\* the offsets with alpha 0 after n iterations, layer by layer: those of
\* n - 1 iterations, and the interior pixels with one of them as a neighbour
RECURSIVE ZeroWithin(_)
ZeroWithin(n) ==
    IF n <= 0 THEN {o \in Offsets : OriginalAlpha(o) = 0}
    ELSE LET z == ZeroWithin(n - 1)
         IN  z \cup {o \in ErodeScan(W, H) : \E p \in z : Adjacent(o, p)}

(* C15: every iteration of the erosion decides from the alphas as they     *)
(* were when it began: after k iterations the pixels with alpha 0 are the  *)
(* initially transparent ones and the interior pixels joined to one of     *)
(* them by at most k 4-neighbour steps through interior pixels; every      *)
(* other alpha, and every colour, is as it was.                            *)
C15_LayerByLayer ==
    /\ {o \in Offsets : Alpha(o) = 0} = ZeroWithin(k)
    /\ \A o \in Offsets :
          /\ Alpha(o) # 0 => Alpha(o) = OriginalAlpha(o)
          /\ [data[o + 1] EXCEPT !.a = 0] = [Original[o + 1] EXCEPT !.a = 0]

\* after two iterations a pixel of the second layer is cleared, and it was
\* still opaque after the first
C15_Witness ==
    /\ k = 2
    /\ \E o \in ZeroWithin(2) \ ZeroWithin(1) : Alpha(o) = 0 /\ OriginalAlpha(o) # 0

----------------------------------------------------------------------------
\* the similarity of pixel p, the value compared with edgeStart and edgeEnd
\* on lines 38-43 and 63-68, lies in [0, 1]
SimilarityInUnit(p) ==
    IF isGreenScreen(req.targetColorHex)
    THEN /\ GreenSimGeq(greenScore2(p), 0)
         /\ ~GreenSimGt(greenScore2(p), 100)
    ELSE /\ RgbSimGeq(distanceSq(p, TargetOf(req.targetColorHex)), 0)
         /\ ~RgbSimGt(distanceSq(p, TargetOf(req.targetColorHex)), 100)

(* C16: in feathered mode, for every pixel and every key, the similarity   *)
(* compared with edgeStart and edgeEnd lies in [0, 1].                     *)
C16_SimilarityInUnit ==
    (pc = "matted" /\ ~UsesFlood(req.removalMode)
        /\ req.colorTolerance \in 0..100 /\ req.smoothness \in 0..100) =>
        \A i \in 1..Len(Original) : SimilarityInUnit(Original[i])

----------------------------------------------------------------------------
(* The flood fill as a loop that keeps running: the handler is one         *)
(* synchronous call, so a step that is possible is taken.                  *)
InitFloodFair ==
    /\ FloodReceived({KeyGreen}, {50})
    /\ order = CodeOrder

SpecFloodFair == InitFloodFair /\ [][NextFlood]_vars /\ WF_vars(NextFlood)

\* each pixel was tested as often as it is marked, at most once, and at most
\* 4 + 4*w*h coordinates have been pushed; a loop that has ended left an
\* empty stack
FloodBounded ==
    /\ pushed <= 4 + 4 * W * H
    /\ pc \in {"flood", "matted"} =>
          /\ DOMAIN tested = Offsets
          /\ \A o \in Offsets : tested[o] <= 1 /\ tested[o] = visited[o]
    /\ pc = "matted" => stack = <<>>

\* the popped coordinate is out of bounds or already visited: nothing but
\* the stack changes, and the stack only loses that coordinate
FloodDiscards ==
    (pc = "flood" /\ stack # <<>> /\ Skipped(FloodState, W, H, order)) =>
        /\ data' = data /\ visited' = visited
        /\ pushed' = pushed /\ tested' = tested
        /\ stack' = Popped(FloodState, order)

(* C18: the flood fill terminates on every image: each in-bounds pixel is  *)
(* marked visited and tested at most once, a coordinate out of bounds or   *)
(* already visited is discarded without effect, at most 4 + 4*w*h          *)
(* coordinates are ever pushed, and the loop ends with an empty stack.     *)
C18_Terminates ==
    /\ []FloodBounded
    /\ [][FloodDiscards]_vars
    /\ <>(pc = "matted" /\ stack = <<>>)

\* the loop has ended on the largest image, every pixel tested once and the
\* bound 4 + 4*w*h reached, after a coordinate out of bounds was discarded
C18_Witness ==
    /\ pc = "matted" /\ stack = <<>>
    /\ W * H = MaxPixels
    /\ pushed = 4 + 4 * W * H
    /\ \A o \in Offsets : tested[o] = 1 /\ visited[o] = 1

====
